---------------------------- MODULE Spec2Model ----------------------------
(***************************************************************************)
(* A model of resource_alert (src/main.cpp): the monitor loop that samples *)
(* memory ("free -L") and CPU ("sar"), parses the text, compares with the  *)
(* thresholds, saves diagnostic snapshots and sends throttled              *)
(* notifications.                                                          *)
(*                                                                         *)
(* Text is a sequence of one-character strings.  size_t arithmetic keeps   *)
(* its wrap-around (see the Sz operators), int keeps its 32-bit range and  *)
(* float its 24-bit significand.                                           *)
(***************************************************************************)
EXTENDS Integers, Sequences, FiniteSets, TLC

VARIABLES
    args,         \* const Args args (main, line 420)
    appState,     \* AppState appState (main, line 421)
    readBuffer,   \* std::string readBuffer (main, line 423)
    pc,           \* position of the single thread inside main's loop
    memPct,       \* memConsumptionPct, from line 383 to its last use in line 399
    cpuPct,       \* cpuConsumptionPct, from line 402 to its last use in line 412
    cycleLog,     \* history: the calls doPeriodicCheck has made in the cycle under way
    lastNotify,   \* history: the latest trySendNotification call of the cycle
    notified,     \* history: per alert kind, the clock readings of its dispatches
    breaches,     \* history: per alert kind, the breaches so far (saturating)
    fn            \* harness of the pure-function specifications

vars == <<args, appState, readBuffer, pc, memPct, cpuPct, cycleLog, lastNotify,
          notified, breaches, fn>>

-----------------------------------------------------------------------------
(* Characters and C strings                                                *)

\* isspace() in the "C" locale, as strtol uses it
WhiteSpace == {" ", "\t", "\n", "\r", "\f"}

DigitChars == <<"0", "1", "2", "3", "4", "5", "6", "7", "8", "9">>

Digits == {DigitChars[i] : i \in 1..10}

DigitVal(c) == (CHOOSE i \in 1..10 : DigitChars[i] = c) - 1

INT_MAX == 2147483647

INT_MIN == -2147483647 - 1

\* s[i] as a C string reads it: the terminating NUL past the last character
CharAt(s, i) == IF i \in 1..Len(s) THEN s[i] ELSE "NUL"

RECURSIVE SkipWhile(_, _, _)
\* the first position >= i of s whose character is not in set (Len(s)+1: the NUL)
SkipWhile(s, i, set) ==
    IF i <= Len(s) /\ s[i] \in set THEN SkipWhile(s, i + 1, set) ELSE i

\* The magnitude strtol accumulates over the digits s[i..j-1], kept inside 32
\* bits: "val" while it is <= INT_MAX, "min" when it is exactly 2^31, "big" above.
RECURSIVE DigitsValue(_, _, _, _)
DigitsValue(s, i, j, acc) ==
    IF i >= j THEN acc
    ELSE LET d == DigitVal(s[i])
             next == IF acc.kind # "val" THEN [kind |-> "big", v |-> 0]
                     ELSE IF acc.v <= (INT_MAX - d) \div 10
                          THEN [kind |-> "val", v |-> acc.v * 10 + d]
                     ELSE IF acc.v = 214748364 /\ d = 8
                          THEN [kind |-> "min", v |-> 0]
                     ELSE [kind |-> "big", v |-> 0]
         IN  DigitsValue(s, i + 1, j, next)

\* std::strtol(str, &end, 10): l is "over" / "under" where the long is outside
\* the int range (the only thing parseInt asks of such a value), end is the
\* position the end pointer is left at (Len(s)+1: at the NUL).
Strtol(s) ==
    LET afterWs == SkipWhile(s, 1, WhiteSpace)
        neg     == CharAt(s, afterWs) = "-"
        first   == IF CharAt(s, afterWs) \in {"-", "+"} THEN afterWs + 1 ELSE afterWs
        last    == SkipWhile(s, first, Digits)
        mag     == DigitsValue(s, first, last, [kind |-> "val", v |-> 0])
    IN  IF last = first
        THEN [range |-> "in", l |-> 0, end |-> 1]          \* no conversion
        ELSE IF mag.kind = "val"
             THEN [range |-> "in", l |-> IF neg THEN -mag.v ELSE mag.v, end |-> last]
        ELSE IF mag.kind = "min" /\ neg
             THEN [range |-> "in", l |-> INT_MIN, end |-> last]
        ELSE [range |-> IF neg THEN "under" ELSE "over", l |-> 0, end |-> last]

NullOpt == [has |-> FALSE, v |-> 0]

Some(v) == [has |-> TRUE, v |-> v]

\* std::optional<int> parseInt(const char* str, 10)
parseInt(s) ==
    LET r == Strtol(s)
    IN  IF r.range = "over" THEN NullOpt
        ELSE IF r.range = "under" THEN NullOpt
        ELSE IF CharAt(s, 1) = "NUL" \/ CharAt(s, r.end) # "NUL" THEN NullOpt
        ELSE Some(r.l)

-----------------------------------------------------------------------------
(* size_t arithmetic.  A size_t is written hi * 2^(w-2) + lo, w its width,  *)
(* with hi in 0..4 and lo a small integer: 0 <= value < 2^w is kept by      *)
(* Sz, which is where the unsigned wrap-around happens.  The text the       *)
(* program handles is tiny beside 2^(w-2), so the order of two values is    *)
(* the order of their hi, then of their lo.                                 *)

Sz(hi, lo) ==
    LET h == hi % 4
    IN  IF h = 0 /\ lo < 0 THEN [hi |-> 4, lo |-> lo] ELSE [hi |-> h, lo |-> lo]

SzOf(n) == Sz(0, n)

SzAdd(a, b) == Sz(a.hi + b.hi, a.lo + b.lo)

SzSub(a, b) == Sz(a.hi - b.hi + 4, a.lo - b.lo)

\* a * k for a small k
SzMul(a, k) == Sz(a.hi * k, a.lo * k)

\* a / 4 for a = n - 1, n the size of a buffer: n - 1 is small, or 2^w - 1
SzDiv4(a) == IF a.hi = 0 THEN Sz(0, a.lo \div 4) ELSE Sz(1, -1)

SzLess(a, b) == a.hi < b.hi \/ (a.hi = b.hi /\ a.lo < b.lo)

SzMin(a, b) == IF SzLess(b, a) THEN b ELSE a

IsSmall(a) == a.hi = 0

-----------------------------------------------------------------------------
(* std::string::substr(pos, len): throws std::out_of_range when pos is past *)
(* the end, else the characters [pos, min(pos + len, size)).  pos and len   *)
(* are size_t, pos 0-based.                                                 *)

SubstrThrows(s, pos) == SzLess(SzOf(Len(s)), pos)

Substr(s, pos, len) ==
    LET rest == Len(s) - pos.lo
        n    == IF IsSmall(len) /\ len.lo < rest THEN len.lo ELSE rest
    IN  SubSeq(s, pos.lo + 1, pos.lo + n)

-----------------------------------------------------------------------------
(* float: an IEEE-754 binary32 value s * m * 2^e with 2^23 <= m < 2^24, or  *)
(* zero (m = 0), an infinity or a NaN.  Results are rounded to nearest,     *)
(* ties to even, as the hardware rounds them.  Exponent overflow and        *)
(* subnormals cannot arise from the 32-bit integers the program converts.   *)

RECURSIVE Pow2(_)
Pow2(n) == IF n = 0 THEN 1 ELSE 2 * Pow2(n - 1)

RECURSIVE BitLen(_)
BitLen(n) == IF n = 0 THEN 0 ELSE 1 + BitLen(n \div 2)

F32Zero == [cls |-> "num", s |-> 1, m |-> 0, e |-> 0]

F32NaN == [cls |-> "nan", s |-> 1, m |-> 0, e |-> 0]

F32Inf(sign) == [cls |-> "inf", s |-> sign, m |-> 0, e |-> 0]

\* n / 2^shift rounded to the nearest integer, ties to even
RoundShift(n, shift) ==
    LET p    == Pow2(shift)
        q    == n \div p
        r    == n % p
        half == p \div 2
    IN  IF r > half \/ (r = half /\ q % 2 = 1) THEN q + 1 ELSE q

\* the float nearest to sign * n * 2^e, n a natural number below 2^31
F32Round(sign, n, e) ==
    LET len == BitLen(n)
    IN  IF n = 0 THEN F32Zero
        ELSE IF len <= 24
             THEN [cls |-> "num", s |-> sign, m |-> n * Pow2(24 - len), e |-> e - (24 - len)]
        ELSE LET r == RoundShift(n, len - 24)
             IN  IF r = Pow2(24)
                 THEN [cls |-> "num", s |-> sign, m |-> Pow2(23), e |-> e + (len - 24) + 1]
                 ELSE [cls |-> "num", s |-> sign, m |-> r, e |-> e + (len - 24)]

\* float(v) of an int v
F32FromInt(v) ==
    IF v = INT_MIN THEN [cls |-> "num", s |-> -1, m |-> Pow2(23), e |-> 8]
    ELSE IF v < 0 THEN F32Round(-1, -v, 0)
    ELSE F32Round(1, v, 0)

\* |a| < |b| of two finite floats
F32MagLess(a, b) ==
    IF b.m = 0 THEN FALSE
    ELSE IF a.m = 0 THEN TRUE
    ELSE a.e < b.e \/ (a.e = b.e /\ a.m < b.m)

\* a < b; false when either is a NaN
F32Less(a, b) ==
    IF a.cls = "nan" \/ b.cls = "nan" THEN FALSE
    ELSE IF a.cls = "inf" THEN a.s = -1 /\ ~(b.cls = "inf" /\ b.s = -1)
    ELSE IF b.cls = "inf" THEN b.s = 1
    ELSE IF a.m = 0 /\ b.m = 0 THEN FALSE
    ELSE IF a.m = 0 THEN b.s = 1
    ELSE IF b.m = 0 THEN a.s = -1
    ELSE IF a.s # b.s THEN a.s = -1
    ELSE IF a.s = 1 THEN F32MagLess(a, b)
    ELSE F32MagLess(b, a)

\* a >= b; false when either is a NaN
F32Ge(a, b) == a.cls # "nan" /\ b.cls # "nan" /\ ~F32Less(a, b)

\* a + b of two finite floats: three guard bits and a sticky bit
F32Add(a, b) ==
    IF a.m = 0 THEN b
    ELSE IF b.m = 0 THEN a
    ELSE LET big   == IF F32MagLess(a, b) THEN b ELSE a
             small == IF F32MagLess(a, b) THEN a ELSE b
             d     == big.e - small.e
         IN  IF d > 25 THEN big
             ELSE LET A      == big.m * 8
                      x      == small.m * 8
                      p      == Pow2(d)
                      B      == x \div p
                      sticky == IF x % p # 0 THEN 1 ELSE 0
                      sum    == IF big.s = small.s
                                THEN 2 * (A + B) + sticky
                                ELSE 2 * (A - B) - sticky
                  IN  F32Round(big.s, sum, big.e - 4)

\* the 26 fraction bits of r / d (r < d) and the remainder, by long division
RECURSIVE LongDiv(_, _, _, _)
LongDiv(r, d, q, steps) ==
    IF steps = 0 THEN [q |-> q, r |-> r]
    ELSE LET r2 == 2 * r
         IN  IF r2 >= d THEN LongDiv(r2 - d, d, 2 * q + 1, steps - 1)
             ELSE LongDiv(r2, d, 2 * q, steps - 1)

\* a / b of two finite floats
F32Div(a, b) ==
    IF b.m = 0 THEN (IF a.m = 0 THEN F32NaN ELSE F32Inf(a.s * b.s))
    ELSE IF a.m = 0 THEN F32Zero
    ELSE LET int  == a.m \div b.m
             frac == LongDiv(a.m % b.m, b.m, int, 26)
             n    == 2 * frac.q + (IF frac.r # 0 THEN 1 ELSE 0)
         IN  F32Round(a.s * b.s, n, a.e - b.e - 27)

\* a * 100.0 in double (exact: 31 bits), converted back to float by the return
F32Times100(a) ==
    IF a.cls # "num" THEN a ELSE F32Round(a.s, a.m * 100, a.e)

\* int(a): the value truncated toward zero; "ub" where the conversion is
\* undefined (the truncated value is not an int)
F32ToInt(a) ==
    IF a.cls # "num" THEN [ub |-> TRUE, v |-> 0]
    ELSE IF a.m = 0 THEN [ub |-> FALSE, v |-> 0]
    ELSE IF a.e >= 8
         THEN (IF a.s = -1 /\ a.e = 8 /\ a.m = Pow2(23)
               THEN [ub |-> FALSE, v |-> INT_MIN] ELSE [ub |-> TRUE, v |-> 0])
    ELSE IF a.e >= 0 THEN [ub |-> FALSE, v |-> a.s * a.m * Pow2(a.e)]
    ELSE IF a.e <= -24 THEN [ub |-> FALSE, v |-> 0]
    ELSE [ub |-> FALSE, v |-> a.s * (a.m \div Pow2(-a.e))]

-----------------------------------------------------------------------------
(* The column extractors and the samplers                                  *)

\* const size_t longestHeaderLen = 8 + 1 (line 272)
longestHeaderLen == 9

RECURSIVE ScanNumber_CountAfter(_, _, _, _, _)
\* ScanNumber with the length counted down only for the spaces skipped
ScanNumber_CountAfter(buffer, i, end, numberStart, numberLen) ==
    IF i < end
    THEN IF buffer[i + 1] # " "
         THEN [numberStart |-> SzOf(i), numberLen |-> numberLen]
         ELSE ScanNumber_CountAfter(buffer, i + 1, end, numberStart,
                                    SzSub(numberLen, SzOf(1)))
    ELSE [numberStart |-> numberStart, numberLen |-> numberLen]

\* The loop of lines 279-287 from index i on: numberLen is decremented before
\* the character is looked at, numberStart is set at the first non-space.
RECURSIVE ScanNumber(_, _, _, _, _)
ScanNumber(buffer, i, end, numberStart, numberLen) ==
    IF i < end
    THEN LET len1 == SzSub(numberLen, SzOf(1))
         IN  IF buffer[i + 1] # " "
             THEN [numberStart |-> SzOf(i), numberLen |-> len1]
             ELSE ScanNumber(buffer, i + 1, end, numberStart, len1)
    ELSE [numberStart |-> numberStart, numberLen |-> numberLen]

\* The substring getFreePartValue cuts out for block partIndex (lines 272-290):
\* where it starts, how long it is asked to be, and whether substr throws.
FreePartField(buffer, partIndex) ==
    LET size         == SzOf(Len(buffer))
        blockLen     == SzDiv4(SzSub(size, SzOf(1)))
        startOffset  == SzAdd(SzMul(blockLen, partIndex), SzOf(longestHeaderLen))
        maxNumberLen == SzSub(blockLen, SzOf(longestHeaderLen))
        end          == SzMin(SzAdd(startOffset, maxNumberLen), size)
        found        == IF IsSmall(startOffset)
                        THEN ScanNumber(buffer, startOffset.lo, end.lo, startOffset, maxNumberLen)
                        ELSE [numberStart |-> startOffset, numberLen |-> maxNumberLen]
    IN  IF SubstrThrows(buffer, found.numberStart)
        THEN [throws |-> TRUE, numberPart |-> <<>>]
        ELSE [throws |-> FALSE,
              numberPart |-> Substr(buffer, found.numberStart, found.numberLen)]

\* int getFreePartValue(std::string& buffer, size_t partIndex): the value
\* returned, "failed" when the parse failure was logged and 0 returned, "throws"
\* when std::out_of_range leaves the function.
getFreePartValue(buffer, partIndex) ==
    LET field        == FreePartField(buffer, partIndex)
        parsedNumber == parseInt(field.numberPart)
    IN  IF field.throws THEN [throws |-> TRUE, failed |-> FALSE, v |-> 0]
        ELSE IF ~parsedNumber.has THEN [throws |-> FALSE, failed |-> TRUE, v |-> 0]
        ELSE [throws |-> FALSE, failed |-> FALSE, v |-> parsedNumber.v]

\* UsedPct with the used value divided by the free value alone
UsedPct_OverFree(usedValue, freeValue) ==
    F32Times100(F32Div(F32FromInt(usedValue), F32FromInt(freeValue)))

\* usedFraction * 100.0 of line 313-315
UsedPct(usedValue, freeValue) ==
    F32Times100(F32Div(F32FromInt(usedValue),
                       F32Add(F32FromInt(freeValue), F32FromInt(usedValue))))

\* float checkMemory(std::string& buffer), on the text "free -L" printed (empty
\* when the command could not be executed): the percentage returned, or throws.
checkMemory(output) ==
    LET usedValue == getFreePartValue(output, 2)
        freeValue == getFreePartValue(output, 3)
    IN  IF usedValue.throws \/ freeValue.throws
        THEN [throws |-> TRUE, failed |-> FALSE, pct |-> F32Zero]
        ELSE [throws |-> FALSE,
              failed |-> usedValue.failed \/ freeValue.failed,
              pct    |-> UsedPct(usedValue.v, freeValue.v)]

\* bool isSubstr(string, substring, position), position 0-based
isSubstr(string, substring, position) ==
    IF position + Len(substring) >= Len(string) THEN FALSE
    ELSE \A i \in 0..(Len(substring) - 1) : string[position + i + 1] = substring[i + 1]

idleMarker == <<"%", "i", "d", "l", "e">>

\* The loop of lines 348-360 from index i on: the last offset of "%idle" in the
\* first line, and where the second line starts.
RECURSIVE FindIdle(_, _, _)
FindIdle(buffer, i, idleOffset) ==
    IF i >= Len(buffer) THEN [idleOffset |-> idleOffset, secondLineStart |-> 0]
    ELSE LET off == IF isSubstr(buffer, idleMarker, i) THEN i ELSE idleOffset
         IN  IF buffer[i + 1] = "\n"
             THEN [idleOffset |-> off, secondLineStart |-> i + 1]
             ELSE FindIdle(buffer, i + 1, off)

\* float checkCpu(std::string& buffer), on the text the sar pipeline printed
checkCpu(output) ==
    LET found        == FindIdle(output, 0, -1)
        pos          == SzOf(found.secondLineStart + found.idleOffset + 2)
        numberPart   == Substr(output, pos, SzOf(3))
        parsedNumber == parseInt(numberPart)
    IN  IF found.idleOffset = -1
        THEN [throws |-> FALSE, failed |-> TRUE, pct |-> F32Zero]
        ELSE IF SubstrThrows(output, pos)
        THEN [throws |-> TRUE, failed |-> FALSE, pct |-> F32Zero]
        ELSE IF ~parsedNumber.has
        THEN [throws |-> FALSE, failed |-> TRUE, pct |-> F32Zero]
        ELSE [throws |-> FALSE, failed |-> FALSE, pct |-> F32FromInt(100 - parsedNumber.v)]

-----------------------------------------------------------------------------
(* What the external commands can print                                     *)

RECURSIVE Spaces(_)
Spaces(n) == IF n <= 0 THEN <<>> ELSE <<" ">> \o Spaces(n - 1)

\* printf("%*s", width, text): text right-justified, never cut
RightJustify(text, width) == Spaces(width - Len(text)) \o text

\* the length of a block of "free -L" (line 270: usually 20 characters)
FreeBlockLen == 20

\* One block of "free -L": a 7-character header, a space, the value
\* right-justified, a closing space.
FreeBlock(header, value) ==
    header \o <<" ">> \o RightJustify(value, FreeBlockLen - Len(header) - 2) \o <<" ">>

\* The line "free -L" prints: SwapUse, CachUse, MemUse and MemFree blocks
FreeLine(swapUse, cachUse, memUse, memFree) ==
    FreeBlock(<<"S", "w", "a", "p", "U", "s", "e">>, swapUse)
    \o FreeBlock(<<"C", "a", "c", "h", "U", "s", "e">>, cachUse)
    \o FreeBlock(<<" ", "M", "e", "m", "U", "s", "e">>, memUse)
    \o FreeBlock(<<"M", "e", "m", "F", "r", "e", "e">>, memFree)
    \o <<"\n">>

\* The last three lines of "sar --dec=0 1 1": the header row with the %idle
\* column at offset idleColumn, the sample row and the average row, each value
\* right-justified under its header.
SarRow(label, idleColumn, idle) ==
    label \o RightJustify(idle, idleColumn + Len(idleMarker) - Len(label)) \o <<"\n">>

SarLines(idleColumn, idle) ==
    SarRow(<<"C", "P", "U">>, idleColumn, idleMarker)
    \o SarRow(<<"a", "l", "l">>, idleColumn, idle)
    \o SarRow(<<"A", "v", "g">>, idleColumn, idle)

-----------------------------------------------------------------------------
(* The inputs of the monitor loop                                           *)

Kinds == {"Memory", "CPU"}

\* size_t notificationThrottleSec = 20 * 60 (line 116)
DefaultThrottleSec == 1200

\* float memThresholdPct = 70.0f, cpuThresholdPct = 70.0f (lines 111, 113)
DefaultThresholdPct == 70

\* size_t timeBetweenChecksSec = 60 (line 114)
DefaultTimeBetweenChecksSec == 60

\* how many throttle windows of the default length the clock readings span
MaxWindows == 2

\* What system_clock::now() can return, in seconds since the epoch.  The
\* system clock can be set, so a reading may be lower than an earlier one.
ClockReadings ==
    {0, DefaultThrottleSec \div 2, 2 * DefaultThrottleSec + 1}
    \cup {w * (DefaultThrottleSec + 1) : w \in 1..MaxWindows}

\* Args args: the defaults of lines 108-117
DefaultArgs ==
    [memThresholdPct         |-> DefaultThresholdPct,
     cpuThresholdPct         |-> DefaultThresholdPct,
     timeBetweenChecksSec    |-> DefaultTimeBetweenChecksSec,
     runCustomScript         |-> "",
     notificationThrottleSec |-> DefaultThrottleSec]

\* The Args readArgs can return (lines 191-248): the defaults, and the
\* defaults with -r, with -r -n 0, and with -r -m 1 -c 99 -n 600.
ArgsChoices ==
    {DefaultArgs,
     [DefaultArgs EXCEPT !.runCustomScript = "./notify.sh"],
     [DefaultArgs EXCEPT !.runCustomScript = "./notify.sh",
                         !.notificationThrottleSec = 0],
     [DefaultArgs EXCEPT !.runCustomScript = "./notify.sh",
                         !.memThresholdPct = 1, !.cpuThresholdPct = 99,
                         !.notificationThrottleSec = DefaultThrottleSec \div 2]}

RECURSIVE Txt(_)
\* the decimal numeral of a natural number, as the tools print it
Txt(n) == IF n < 10 THEN <<DigitChars[n + 1]>>
          ELSE Txt(n \div 10) \o <<DigitChars[(n % 10) + 1]>>

\* What readCommandOutput("free -L") can leave in the buffer: nothing (popen
\* failed, or the command printed nothing), a line cut short, and full lines
\* with values below, at and above the default threshold, with blank fields
\* and with a field that is no numeral.
FreeOutputs ==
    {<<>>,
     <<"M", "e", "m", "\n">>,
     FreeLine(Txt(0), Txt(12), Txt(30), Txt(70)),
     FreeLine(Txt(0), Txt(12), Txt(70), Txt(30)),
     FreeLine(Txt(0), Txt(12), Txt(85), Txt(15)),
     FreeLine(Txt(0), Txt(12), <<>>, <<>>),
     FreeLine(Txt(0), Txt(12), <<"?">>, Txt(70)),
     FreeLine(Txt(0), Txt(12), Txt(50), <<"?">>)}

\* the offset of the %idle column in the fixtures
IdleColumn == 8

\* What readCommandOutput("sar --dec=0 1 1 | tail -n 3") can leave in the
\* buffer: nothing, the header row alone, and reports with idle values
\* above, at and below 100 - the default threshold, and with no numeral.
SarOutputs ==
    {<<>>,
     SarRow(<<"C", "P", "U">>, IdleColumn, idleMarker),
     SarLines(IdleColumn, Txt(35)),
     SarLines(IdleColumn, Txt(30)),
     SarLines(IdleColumn, Txt(0)),
     SarLines(IdleColumn, <<"?">>)}

\* the samplers applied once to each text the commands can print
MemSamples == [output \in FreeOutputs |-> checkMemory(output)]

CpuSamples == [output \in SarOutputs |-> checkCpu(output)]

\* What std::system returns for the notification script
ExitCodes == {0, 1}

\* What can happen inside saveCommandOutput (lines 86-106): everything works;
\* popen fails; fopen fails; fputs reports EOF.
SaveEnvs == {"ok", "popenFailed", "fopenFailed", "fputsFailed"}

\* bool saveCommandOutput(cmd, filePath): the results it can have in an
\* environment.  When fopen fails, fputs is handed a null FILE* (line 97):
\* undefined behaviour, which ends the process (a null dereference) or, with a
\* C library that checks the stream, returns EOF.
saveCommandOutput(env) ==
    CASE env = "ok"          -> {"true"}
      [] env = "popenFailed" -> {"false"}
      [] env = "fputsFailed" -> {"false"}
      [] env = "fopenFailed" -> {"crash", "false"}

-----------------------------------------------------------------------------
(* The monitor loop: main (lines 418-431), doPeriodicCheck (381-416) and    *)
(* trySendNotification (250-266).  Every call of an external command is one *)
(* step of the single thread.                                               *)

\* the saturation of the breach counters kept as history
MaxBreachCount == 2

NoFn == [phase |-> "none"]

NoNotify == [kind |-> "none", outcome |-> "none", breachNo |-> 0, time |-> 0,
             resultCode |-> 0]

\* AppState appState: both time points value-initialised, the clock's epoch
InitAppState == [lastMemAlertSentTime |-> 0, lastCpuAlertSentTime |-> 0]

Init ==
    /\ args \in ArgsChoices
    /\ appState = InitAppState
    /\ readBuffer = <<>>
    /\ pc = "checkMemory"
    /\ memPct = F32Zero
    /\ cpuPct = F32Zero
    /\ cycleLog = <<>>
    /\ lastNotify = NoNotify
    /\ notified = [k \in Kinds |-> <<>>]
    /\ breaches = [k \in Kinds |-> 0]
    /\ fn = NoFn

\* consumptionPct >= threshold (lines 384, 403); the threshold is the float of
\* the int parseInt read (line 176)
Breach(consumptionPct, thresholdPct) == F32Ge(consumptionPct, F32FromInt(thresholdPct))

\* Permitted with the end of the window included
Permitted_AtWindowEnd(timeNow, lastSendTime, notificationThrottleSec) ==
    timeNow >= lastSendTime + notificationThrottleSec

\* timeNow > lastSendTime + std::chrono::seconds(notificationThrottleSec) (line 255)
Permitted(timeNow, lastSendTime, notificationThrottleSec) ==
    timeNow > lastSendTime + notificationThrottleSec

\* the AppState member trySendNotification is handed for a kind (lines 399, 412)
LastSendTime(state, kind) ==
    IF kind = "Memory" THEN state.lastMemAlertSentTime ELSE state.lastCpuAlertSentTime

\* WithLastSendTime writing both time points
WithLastSendTime_Both(state, kind, timeNow) ==
    [lastMemAlertSentTime |-> timeNow, lastCpuAlertSentTime |-> timeNow]

\* lastSendTime = timeNow (line 263), through that reference
WithLastSendTime(state, kind, timeNow) ==
    IF kind = "Memory" THEN [state EXCEPT !.lastMemAlertSentTime = timeNow]
    ELSE [state EXCEPT !.lastCpuAlertSentTime = timeNow]

\* int(consumptionPct) in the name of a report file (lines 387, 393, 406): the
\* conversion is undefined when the truncated value is no int, and the
\* hardware then gives INT_MIN or a saturated value.
IntOfPct(consumptionPct) ==
    LET r == F32ToInt(consumptionPct)
    IN  IF r.ub THEN {INT_MIN, INT_MAX} ELSE {r.v}

SampleEvent(kind, r, breach) ==
    [op |-> "sample", kind |-> kind, breach |-> breach,
     what |-> IF r.throws THEN "throws" ELSE IF r.failed THEN "failed" ELSE "ok"]

Counted(n) == IF n < MaxBreachCount THEN n + 1 ELSE n

\* One sampler call of doPeriodicCheck and the comparison after it (lines 383-384
\* and 402-403).  An exception leaving the sampler is caught nowhere:
\* std::terminate.  The percentage is kept only where it is read again.
SampleStep(kind, r, thresholdPct, from, onBreach, otherwise) ==
    LET breach == ~r.throws /\ Breach(r.pct, thresholdPct)
    IN  /\ pc = from
        /\ cycleLog' = Append(cycleLog, SampleEvent(kind, r, breach))
        /\ pc' = IF r.throws THEN "terminated" ELSE IF breach THEN onBreach ELSE otherwise
        /\ breaches' = IF breach THEN [breaches EXCEPT ![kind] = Counted(@)] ELSE breaches
        /\ IF kind = "Memory"
           THEN memPct' = (IF breach THEN r.pct ELSE F32Zero) /\ UNCHANGED cpuPct
           ELSE cpuPct' = (IF breach THEN r.pct ELSE F32Zero) /\ UNCHANGED memPct
        /\ UNCHANGED <<args, appState, lastNotify, notified, fn>>

\* const float memConsumptionPct = checkMemory(readBuffer);
CheckMemoryStep ==
    \E output \in FreeOutputs :
        /\ readBuffer' = output
        /\ SampleStep("Memory", MemSamples[output], args.memThresholdPct,
                      "checkMemory", "memSavePs", "checkCpu")

\* const float cpuConsumptionPct = checkCpu(readBuffer);
CheckCpuStep ==
    \E output \in SarOutputs :
        /\ readBuffer' = output
        /\ SampleStep("CPU", CpuSamples[output], args.cpuThresholdPct,
                      "checkCpu", "cpuSavePs", "sleep")

\* One saveCommandOutput call of doPeriodicCheck and the printf after it
SaveStep(kind, cmd, consumptionPct, from, to) ==
    /\ pc = from
    /\ \E env \in SaveEnvs, truncatedPct \in IntOfPct(consumptionPct) :
         \E result \in saveCommandOutput(env) :
            /\ cycleLog' = Append(cycleLog,
                   [op |-> "capture", kind |-> kind, cmd |-> cmd,
                    truncatedPct |-> truncatedPct])
            /\ pc' = IF result = "crash" THEN "terminated" ELSE to
    /\ UNCHANGED <<args, appState, readBuffer, memPct, cpuPct, lastNotify, notified,
                   breaches, fn>>

\* void trySendNotification(args, lastSendTime, errorTitle, consumptionPct)
TrySendNotification(kind, from, to) ==
    /\ pc = from
    /\ pc' = to
    /\ cycleLog' = Append(cycleLog, [op |-> "notify", kind |-> kind])
    /\ IF args.runCustomScript = ""
       THEN /\ lastNotify' = [kind |-> kind, outcome |-> "disabled",
                              breachNo |-> breaches[kind], time |-> 0, resultCode |-> 0]
            /\ UNCHANGED <<appState, notified>>
       ELSE \E timeNow \in ClockReadings :
              IF Permitted(timeNow, LastSendTime(appState, kind), args.notificationThrottleSec)
              THEN \E resultCode \in ExitCodes :
                     /\ appState' = WithLastSendTime(appState, kind, timeNow)
                     /\ notified' = [notified EXCEPT ![kind] = Append(@, timeNow)]
                     /\ lastNotify' = [kind |-> kind, outcome |-> "dispatched",
                                       breachNo |-> breaches[kind], time |-> timeNow,
                                       resultCode |-> resultCode]
              ELSE /\ lastNotify' = [kind |-> kind, outcome |-> "throttled",
                                     breachNo |-> breaches[kind], time |-> timeNow,
                                     resultCode |-> 0]
                   /\ UNCHANGED <<appState, notified>>
    /\ IF kind = "Memory"
       THEN memPct' = F32Zero /\ UNCHANGED cpuPct
       ELSE cpuPct' = F32Zero /\ UNCHANGED memPct
    /\ UNCHANGED <<args, readBuffer, breaches, fn>>

MemSavePs == SaveStep("Memory", "ps aux --sort=-%mem", memPct, "memSavePs", "memSaveTop")

MemSaveTop == SaveStep("Memory", "top -b -n 1 -o =%MEM", memPct, "memSaveTop", "memNotify")

MemNotify == TrySendNotification("Memory", "memNotify", "checkCpu")

CpuSavePs == SaveStep("CPU", "ps aux --sort=-%cpu", cpuPct, "cpuSavePs", "cpuNotify")

CpuNotify == TrySendNotification("CPU", "cpuNotify", "sleep")

\* doPeriodicCheck returns; sleep(args.timeBetweenChecksSec); the next iteration
Sleep ==
    /\ pc = "sleep"
    /\ pc' = "checkMemory"
    /\ cycleLog' = <<>>
    /\ lastNotify' = NoNotify
    /\ UNCHANGED <<args, appState, readBuffer, memPct, cpuPct, notified, breaches, fn>>

Next ==
    \/ CheckMemoryStep
    \/ MemSavePs
    \/ MemSaveTop
    \/ MemNotify
    \/ CheckCpuStep
    \/ CpuSavePs
    \/ CpuNotify
    \/ Sleep

Spec == Init /\ [][Next]_vars

\* The scheduling of the single thread: a step that can be taken is taken
\* (every external command returns).
FairSpec == Spec /\ WF_vars(Next)

-----------------------------------------------------------------------------
(* The extractor and the samplers on their own: each is applied once to an  *)
(* input drawn from a bounded set.                                          *)

\* the widest block of the synthetic buffers ("free -L" prints 20)
MaxBlockWidth == 21

BlockWidths == {MaxBlockWidth - 9, MaxBlockWidth - 1, MaxBlockWidth}

HeaderLens == {1, 7, 8}

\* the four values of a synthetic buffer, block 0 first
ValueRows ==
    {<<0, 7, 42, 100>>,
     <<7, 42, 100, 0>>,
     <<1351212, 2290900, 3420712, 12>>,
     <<12, 1351212, 99, INT_MAX>>,
     <<INT_MAX, 5, 1351212, 2290900>>}

\* the numeral of an int
Numeral(v) == IF v < 0 THEN <<"-">> \o Txt(-v) ELSE Txt(v)

RECURSIVE HeaderToken(_)
HeaderToken(n) == IF n = 0 THEN <<>> ELSE <<"H">> \o HeaderToken(n - 1)

\* A block of the given width: a header token, one space, the numeral
\* right-justified with space padding, then `trailing` closing spaces.
SynthBlock(headerLen, value, width, trailing) ==
    HeaderToken(headerLen) \o <<" ">>
    \o RightJustify(Txt(value), width - headerLen - 1 - trailing) \o Spaces(trailing)

SynthBuffer(headerLen, row, width, trailing) ==
    SynthBlock(headerLen, row[1], width, trailing)
    \o SynthBlock(headerLen, row[2], width, trailing)
    \o SynthBlock(headerLen, row[3], width, trailing)
    \o SynthBlock(headerLen, row[4], width, trailing)
    \o <<"\n">>

\* every numeral of the row fits the field left of the closing spaces
Fits(headerLen, row, width, trailing) ==
    \A j \in 1..4 : Len(Txt(row[j])) <= width - headerLen - 1 - trailing

ExtractInputs ==
    {[phase |-> "input", name |-> "getFreePartValue",
      buffer |-> SynthBuffer(h, row, w, t), partIndex |-> k, given |-> row,
      layout |-> [headerLen |-> h, width |-> w, trailing |-> t], out |-> <<>>] :
        <<h, row, w, t, k>> \in
            {x \in HeaderLens \X ValueRows \X BlockWidths \X {0, 1} \X (0..3) :
                Fits(x[1], x[2], x[3], x[4])}}

\* the used and free values of the memory reports
SampleValues == {-5, 0, 1, 30, 70, 1351212, INT_MAX}

MemoryInputs ==
    {[phase |-> "input", name |-> "checkMemory",
      buffer |-> FreeLine(Txt(0), Txt(12), Numeral(u), Numeral(f)), partIndex |-> 0,
      given |-> <<u, f>>, layout |-> <<>>, out |-> <<>>] :
        <<u, f>> \in SampleValues \X SampleValues}

\* the idle values of the CPU reports, and the offsets of their %idle column
IdleValues == {-5, 0, 1, 30, 35, 99, 100, 101, 150}

IdleColumns == {3, IdleColumn, 69}

CpuInputs ==
    {[phase |-> "input", name |-> "checkCpu",
      buffer |-> SarLines(c, Numeral(idle)), partIndex |-> 0,
      given |-> <<idle>>, layout |-> <<>>, out |-> <<>>] :
        <<c, idle>> \in IdleColumns \X IdleValues}

InitPure ==
    /\ fn \in ExtractInputs \cup MemoryInputs \cup CpuInputs
    /\ args = DefaultArgs
    /\ appState = InitAppState
    /\ readBuffer = <<>>
    /\ pc = "pure"
    /\ memPct = F32Zero
    /\ cpuPct = F32Zero
    /\ cycleLog = <<>>
    /\ lastNotify = NoNotify
    /\ notified = [k \in Kinds |-> <<>>]
    /\ breaches = [k \in Kinds |-> 0]

Apply(name, out) ==
    /\ fn.phase = "input"
    /\ fn.name = name
    /\ fn' = [fn EXCEPT !.phase = "done", !.out = out]
    /\ readBuffer' = fn.buffer
    /\ UNCHANGED <<args, appState, pc, memPct, cpuPct, cycleLog, lastNotify, notified,
                   breaches>>

ApplyGetFreePartValue == Apply("getFreePartValue", getFreePartValue(fn.buffer, fn.partIndex))

ApplyCheckMemory == Apply("checkMemory", checkMemory(fn.buffer))

ApplyCheckCpu == Apply("checkCpu", checkCpu(fn.buffer))

NextPure == ApplyGetFreePartValue \/ ApplyCheckMemory \/ ApplyCheckCpu

SpecPure == InitPure /\ [][NextPure]_vars

-----------------------------------------------------------------------------
(* The properties                                                           *)

NotifyPc(kind) == IF kind = "Memory" THEN "memNotify" ELSE "cpuNotify"

\* the diagnostic commands of a kind (lines 387, 393, 406)
DiagCommands(kind) ==
    IF kind = "Memory" THEN {"ps aux --sort=-%mem", "top -b -n 1 -o =%MEM"}
    ELSE {"ps aux --sort=-%cpu"}

\* the places of the cycle's log that hold a given call for a kind
Places(op, kind) == {i \in DOMAIN cycleLog : cycleLog[i].op = op /\ cycleLog[i].kind = kind}

Captures(kind, cmd) == {i \in Places("capture", kind) : cycleLog[i].cmd = cmd}

\* the cycle under way has breached for the kind
BreachedNow(kind) == \E i \in Places("sample", kind) : cycleLog[i].breach

\* the cycle has ended: doPeriodicCheck has returned, or the process has died
CycleOver == pc \in {"sleep", "terminated"}

\* C1: any two notifications dispatched for one kind have clock readings
\* t1 < t2 with t2 > t1 + notificationThrottleSec, whatever the breaches between
\* them and whatever the clock read.
C1_OnePerWindow ==
    \A k \in Kinds : \A i, j \in DOMAIN notified[k] :
        i < j => /\ notified[k][i] < notified[k][j]
                 /\ notified[k][j] > notified[k][i] + args.notificationThrottleSec

\* two Memory dispatches under the default throttle, then a throttled breach
C1_Witness ==
    /\ Len(notified["Memory"]) >= 2
    /\ args.notificationThrottleSec = DefaultThrottleSec
    /\ lastNotify.kind = "Memory"
    /\ lastNotify.outcome = "throttled"

\* C2: with a notification script configured, the first breach of a kind
\* dispatches a notification at whatever clock reading it occurs (with a
\* throttle of 1200 s: a breach at t = 0 notifies).
C2_FirstBreachNotifies ==
    (/\ lastNotify.kind \in Kinds
     /\ args.runCustomScript # ""
     /\ lastNotify.breachNo = 1) => lastNotify.outcome = "dispatched"

\* C3 as stated: the last-sent time of a kind changes only in a step that
\* dispatches a notification for that kind whose script exits with code 0.
C3_OnlySuccessfulDispatch ==
    [][\A k \in Kinds :
         LastSendTime(appState', k) # LastSendTime(appState, k)
         => /\ pc = NotifyPc(k)
            /\ lastNotify'.kind = k
            /\ lastNotify'.outcome = "dispatched"
            /\ lastNotify'.resultCode = 0]_vars

\* C3 amended: the last-sent time of a kind changes only in a step that runs
\* the notification script for that kind (whatever its exit code), and becomes
\* the clock reading of that step; it is unchanged by a step of a cycle without
\* a breach of that kind, by a throttled attempt, by an attempt without a
\* script, and by every step for the other kind.
C3_OnlyDispatch ==
    [][\A k \in Kinds :
         LastSendTime(appState', k) # LastSendTime(appState, k)
         => /\ pc = NotifyPc(k)
            /\ args.runCustomScript # ""
            /\ lastNotify'.kind = k
            /\ lastNotify'.outcome = "dispatched"
            /\ lastNotify'.time = LastSendTime(appState', k)]_vars

\* the script has exited with a non-zero code and the last-sent time is the
\* reading of that dispatch
C3_Witness ==
    /\ lastNotify.kind = "CPU"
    /\ lastNotify.outcome = "dispatched"
    /\ lastNotify.resultCode # 0
    /\ appState.lastCpuAlertSentTime = lastNotify.time
    /\ appState.lastCpuAlertSentTime # appState.lastMemAlertSentTime

\* C4: whatever text the commands print, checkMemory and checkCpu return a
\* value and raise no error.
C4_SamplersNeverRaise ==
    \A i \in DOMAIN cycleLog : cycleLog[i].op = "sample" => cycleLog[i].what # "throws"

\* C5: in a cycle where an extraction of a sampler fails, that metric's phase
\* captures no snapshot and attempts no notification.
C5_NoAlertOnExtractionFailure ==
    \A k \in Kinds :
        (\E i \in Places("sample", k) : cycleLog[i].what = "failed")
        => Places("capture", k) = {} /\ Places("notify", k) = {}

\* C6: a cycle in which a metric is at or above its threshold attempts a
\* capture for each diagnostic command of that kind; a cycle in which it is
\* below attempts none.
C6_CaptureOnEveryBreach ==
    CycleOver =>
        \A k \in Kinds :
            /\ BreachedNow(k) => \A cmd \in DiagCommands(k) : Captures(k, cmd) # {}
            /\ ~BreachedNow(k) => Places("capture", k) = {}

\* C7: a cycle in which a kind breaches makes exactly one capture attempt per
\* diagnostic command of the kind and exactly one notification attempt for it,
\* whether the captures succeed or fail and whatever the other phase does.
C7_OneAttemptEach ==
    CycleOver =>
        \A k \in Kinds :
            BreachedNow(k)
            => /\ \A cmd \in DiagCommands(k) : Cardinality(Captures(k, cmd)) = 1
               /\ Cardinality(Places("notify", k)) = 1


\* the value block fn.partIndex of a synthetic buffer was built from
Embedded == fn.given[fn.partIndex + 1]

Extracted == fn.phase = "done" /\ fn.name = "getFreePartValue"

\* C8 as stated: on four equal-width blocks and a line terminator, each block a
\* header token of at most 8 characters, one space and a numeral right-justified
\* in the remainder of the block, getFreePartValue(buffer, k) returns the
\* numeral of block k, for every k in 0..3 and every numeral that fits.
C8_ExactToBlockEnd ==
    (Extracted /\ fn.layout.trailing = 0) => ~fn.out.throws /\ fn.out.v = Embedded

\* C8 amended: when every block ends with one space after its right-justified
\* numeral, as the blocks of "free -L" do, and the numeral starts at or after
\* offset 9 of its block (its length is at most the block width - 10),
\* getFreePartValue(buffer, k) parses and returns the numeral of block k, for
\* every k in 0..3.
C8_ExactBeforeClosingSpace ==
    (/\ Extracted
     /\ fn.layout.trailing = 1
     /\ Len(Txt(Embedded)) <= fn.layout.width - longestHeaderLen - 1)
    => fn.out = [throws |-> FALSE, failed |-> FALSE, v |-> Embedded]

\* the largest int, read from the last block of a buffer of 20-character
\* blocks with 7-character headers
C8_Witness ==
    /\ Extracted
    /\ fn.layout = [headerLen |-> 7, width |-> 20, trailing |-> 1]
    /\ fn.partIndex = 3
    /\ Embedded = INT_MAX
    /\ fn.out.v = INT_MAX

\* 0 <= p <= 100
InPercentRange(p) == p.cls = "num" /\ F32Ge(p, F32Zero) /\ F32Ge(F32FromInt(100), p)

Sampled == fn.phase = "done" /\ fn.name \in {"checkMemory", "checkCpu"}

\* C9 as stated: every value the Memory Sampler and the CPU Sampler return for
\* an output the extractors can parse is a percentage in [0, 100].
C9_AlwaysPercentage ==
    (Sampled /\ ~fn.out.throws /\ ~fn.out.failed) => InPercentRange(fn.out.pct)

\* C9 amended: the Memory Sampler returns a percentage in [0, 100] for a report
\* whose used and free values are non-negative ints, not both zero; the CPU
\* Sampler returns one for a report whose idle value is in 0..100.
C9_PercentageOfUsualValues ==
    /\ (/\ fn.phase = "done" /\ fn.name = "checkMemory"
        /\ fn.given[1] >= 0 /\ fn.given[2] >= 0
        /\ (fn.given[1] > 0 \/ fn.given[2] > 0))
       => ~fn.out.throws /\ ~fn.out.failed /\ InPercentRange(fn.out.pct)
    /\ (/\ fn.phase = "done" /\ fn.name = "checkCpu"
        /\ fn.given[1] \in 0..100)
       => ~fn.out.throws /\ ~fn.out.failed /\ InPercentRange(fn.out.pct)

\* used = INT_MAX and free = 1: the float sum rounds to the float of used, and
\* the sampler returns 100
C9_Witness ==
    /\ fn.phase = "done"
    /\ fn.name = "checkMemory"
    /\ fn.given = <<INT_MAX, 1>>
    /\ fn.out.pct = F32FromInt(100)

\* the place of a call in the order of doPeriodicCheck (lines 383-412)
Stage(ev) ==
    IF ev.kind = "Memory"
    THEN CASE ev.op = "sample"  -> 1
           [] ev.op = "capture" -> IF ev.cmd = "ps aux --sort=-%mem" THEN 2 ELSE 3
           [] ev.op = "notify"  -> 4
    ELSE CASE ev.op = "sample"  -> 5
           [] ev.op = "capture" -> 6
           [] ev.op = "notify"  -> 7

StagesDone == {Stage(cycleLog[i]) : i \in DOMAIN cycleLog}

\* the calls of the cycle under way were made in the order of the stages, the
\* captures and the notification attempt of a kind follow a breach of the kind
\* and only that, the CPU sample follows a completed memory phase, and the
\* sleep follows a completed CPU phase
InOrder ==
    /\ \A i, j \in DOMAIN cycleLog : i < j => Stage(cycleLog[i]) < Stage(cycleLog[j])
    /\ StagesDone # {} => 1 \in StagesDone
    /\ \A n \in StagesDone \cap {2, 3, 4} : BreachedNow("Memory") /\ (2..(n - 1)) \subseteq StagesDone
    /\ 5 \in StagesDone => (BreachedNow("Memory") <=> 4 \in StagesDone)
    /\ \A n \in StagesDone \cap {6, 7} : BreachedNow("CPU") /\ (6..(n - 1)) \subseteq StagesDone
    /\ pc = "sleep" => 5 \in StagesDone /\ (BreachedNow("CPU") <=> 7 \in StagesDone)

\* C10: each cycle samples memory, then on a memory breach captures and
\* attempts the memory notification, then samples the CPU, then on a CPU breach
\* captures and attempts the CPU notification, then sleeps; and the loop has no
\* terminal state: in every state it can reach, a next step can be taken.
C10_OrderedAndEndless == InOrder /\ ENABLED Next

=============================================================================
